---------------------------- MODULE Spec2Model ----------------------------
(***************************************************************************)
(* A model of Hirbod's shell (src/src/main.c): the tokenizer, the          *)
(* redirection resolver, the REPL dispatch with its descriptor             *)
(* save/restore, the line editor's end-of-input handling and the two-stage *)
(* pipeline.  Each component has a specification of its own:               *)
(*   SpecTok    parse_command on one input line                            *)
(*   SpecRedir  parse_redirections on one token sequence                   *)
(*   Spec       main's loop: one line per iteration, dispatched             *)
(*   SpecEdit   read_input_line under main's loop, with tab completion     *)
(*   SpecLine   one call of read_input_line, up to a full buffer           *)
(*   SpecPipe   run_pipeline and execute_external_program: the parent and  *)
(*              its children                                               *)
(*   SpecPipeFair  SpecPipe with every process but an early quit scheduled *)
(*   SpecPath   ext_check on one PATH list and file system                 *)
(***************************************************************************)
EXTENDS Integers, Sequences, FiniteSets, TLC

VARIABLES
  line,        \* SpecTok: the command buffer handed to parse_command
  tokPc,       \* SpecTok: "input" before parse_command, "parsed" after
  tokArgv,     \* SpecTok: the tokens parse_command stored in argv
  tokAtEol,    \* SpecTok: the token buffer's content when the scan met the end of line
  rToks,       \* SpecRedir: the token sequence handed to parse_redirections
  rPc,         \* SpecRedir: "input" before parse_redirections, "resolved" after
  rRes,        \* SpecRedir: what parse_redirections left (arguments, targets, flags)
  shPc,        \* Spec: where main is: "loop" (top of the loop), "reading" (prompt printed,
               \*   in read_input_line), "have_line", "exited", "crashed"
  shArgv,      \* Spec: the tokens of the line being handled (argv after parse_command)
  fds,         \* Spec: the shell's descriptor table: descriptor -> open file, or "closed"
  ran,         \* Spec: what the line being handled ran, and on which files
  spawned,     \* Spec: the program of each child forked for the line being handled
  isatty,      \* Spec: descriptor 0 is a terminal, so main enabled raw mode
  termios,     \* Spec: the terminal's settings: "original" or "raw"
  edPc,        \* SpecEdit: "loop", "read" (inside read_input_line), "line", "exited"
  stdin,       \* SpecEdit: the bytes not yet read from descriptor 0; empty = end of stream
  buffer,      \* SpecEdit: read_input_line's buffer[0..len-1]
  edRet,       \* SpecEdit: read_input_line's last return value (-1: none yet)
  edSawEof,    \* SpecEdit: a one-byte read has returned no byte
  edPrompts,   \* SpecEdit: how many prompts main has printed
  edArgv,      \* SpecEdit: the tokens of the last line main handled
  edAbove,     \* SpecEdit: the bytes of the array from index len up to its last
               \*   byte that is not NUL (empty when all are NUL)
  tab_count,   \* SpecEdit: read_input_line's tab_count
  edTab,       \* SpecEdit: what the last key did if it was a tab: the buffer before
               \*   it, the prefix isolated, the matches, and the branch taken
  plLine,      \* SpecPipe: the tokens of the pipeline line
  ppc,         \* SpecPipe: where the parent is in run_pipeline
  pfds,        \* SpecPipe: the parent's descriptor table
  pids,        \* SpecPipe: pid1, pid2: "unset", "child" (fork succeeded) or "failed" (-1)
  cpc,         \* SpecPipe: each child's position: "none", "setup", "redir", "running",
               \*   "failed" (exit(1) before the program ran), "exited"
  cfds,        \* SpecPipe: each child's descriptor table
  reaped,      \* SpecPipe: the children a waitpid has collected
  pipeBuf,     \* SpecPipe: the bytes in the pipe
  toWrite,     \* SpecPipe: the bytes stage 1's program still writes on descriptor 1
  wrote1,      \* SpecPipe: the bytes stage 1's program has written on descriptor 1
  read2,       \* SpecPipe: the bytes stage 2's program has read on descriptor 0
  eof2,        \* SpecPipe: stage 2's program has read end-of-stream on descriptor 0
  plMsg,       \* SpecPipe: what run_pipeline reported
  full_path,   \* SpecPipe: the content of ext_check's static buffer
  plPaths,     \* SpecPipe: path1 and path2 as run_pipeline holds them
  execd,       \* SpecPipe: the path each child handed to execv (NONE before)
  pathPc,      \* SpecPath: "input" before ext_check, "checked" after
  pDirs,       \* SpecPath: path_dirs[0..path_count-1]
  pFiles,      \* SpecPath: directory -> name -> "none", "noexec" or "exec"
  pName,       \* SpecPath: the program name handed to ext_check
  pRes         \* SpecPath: what ext_check returned

tokVars == <<line, tokPc, tokArgv, tokAtEol>>
redirVars == <<rToks, rPc, rRes>>
shVars == <<shPc, shArgv, fds, ran, spawned, isatty, termios>>
edVars == <<edPc, stdin, buffer, edAbove, edRet, edSawEof, edPrompts, edArgv, tab_count, edTab>>
plVars == <<plLine, ppc, pfds, pids, cpc, cfds, reaped, pipeBuf, toWrite, wrote1,
            read2, eof2, plMsg, full_path, plPaths, execd>>
pathVars == <<pathPc, pDirs, pFiles, pName, pRes>>
vars == <<tokVars, redirVars, shVars, edVars, plVars, pathVars>>

\* The components a specification does not exercise stay in these states.
IdleTok == line = <<>> /\ tokPc = "idle" /\ tokArgv = <<>> /\ tokAtEol = <<>>
IdleRedir == rToks = <<>> /\ rPc = "idle" /\ rRes = <<>>
IdleSh ==
  /\ shPc = "idle" /\ shArgv = <<>> /\ fds = <<>> /\ ran = <<>> /\ spawned = <<>>
  /\ isatty = FALSE /\ termios = "original"
IdlePl ==
  /\ plLine = <<>> /\ ppc = "idle" /\ pfds = <<>> /\ pids = <<>> /\ cpc = <<>>
  /\ cfds = <<>> /\ reaped = {} /\ pipeBuf = <<>> /\ toWrite = <<>> /\ wrote1 = <<>>
  /\ read2 = <<>> /\ eof2 = FALSE /\ plMsg = ""
  /\ full_path = <<>> /\ plPaths = <<>> /\ execd = <<>>
IdlePath ==
  pathPc = "idle" /\ pDirs = <<>> /\ pFiles = <<>> /\ pName = "" /\ pRes = <<>>
IdleEd ==
  /\ edPc = "idle" /\ stdin = <<>> /\ buffer = <<>> /\ edAbove = <<>> /\ edRet = -1
  /\ edSawEof = FALSE /\ edPrompts = 0 /\ edArgv = <<>>
  /\ tab_count = 0 /\ edTab = <<>>

(***************************************************************************)
(* Characters.  A line is a sequence of one-character strings; reading     *)
(* past its end yields the terminating NUL of the C string.                *)
(***************************************************************************)
NUL == "NUL"
SQ == "'"
DQ == "\""
BS == "\\"
SP == " "

\* isspace(): the buffer read_input_line builds holds no control byte, so the
\* only whitespace the tokenizer meets is the blank.
isspace(c) == c = SP

CharAt(s, p) == IF p <= Len(s) THEN s[p] ELSE NUL

\* #define MAX_ARGS 100
MAX_ARGS == 100
\* char token[1024]
TOKEN_SIZE == 1024

(***************************************************************************)
(* parse_command.  One evaluation of ParseLoop is one iteration of the     *)
(* for (p = line;; p++) loop; st is the loop's state.                      *)
(***************************************************************************)
\* token[len++] = c, guarded by len < sizeof(token) - 1
AppendChar(tok, c) == IF Len(tok) < TOKEN_SIZE - 1 THEN Append(tok, c) ELSE tok

\* A mutation of the finalization: the token buffer is stored also when it
\* is empty.
EmitTokenMut(argv, tok, max_args) ==
  IF Len(argv) < max_args - 1 THEN Append(argv, tok) ELSE argv

\* if (len > 0) { if (argc < max_args - 1) argv[argc++] = strdup(token); len = 0; }
EmitToken(argv, tok, max_args) ==
  IF Len(tok) > 0 /\ Len(argv) < max_args - 1 THEN Append(argv, tok) ELSE argv

\* A mutation of the delimiter test: a blank ends the token in every mode.
IsDelimiterMut(c, sq, dq) == c = NUL \/ isspace(c)

\* (c == '\0') || (!in_single_quote && !in_double_quote && isspace(c))
IsDelimiter(c, sq, dq) == c = NUL \/ (~sq /\ ~dq /\ isspace(c))

\* A mutation of the escape inside double quotes: the backslash is dropped
\* before every character.
DqEscapeMut(tok, next) == AppendChar(tok, next)

\* Inside double quotes, after a backslash: if (next == '"' || next == '\\')
\* the character alone, else the backslash and the character.
DqEscape(tok, next) ==
  IF next = DQ \/ next = BS
    THEN AppendChar(tok, next)
    ELSE AppendChar(AppendChar(tok, BS), next)

RECURSIVE ParseLoop(_, _, _, _, _, _, _)
ParseLoop(s, p, sq, dq, tok, argv, max_args) ==
  LET c == CharAt(s, p) IN
  IF ~dq /\ c = SQ THEN ParseLoop(s, p + 1, ~sq, dq, tok, argv, max_args)
  ELSE IF ~sq /\ c = DQ THEN ParseLoop(s, p + 1, sq, ~dq, tok, argv, max_args)
  ELSE IF IsDelimiter(c, sq, dq) THEN
    IF c = NUL
      THEN [argv |-> EmitToken(argv, tok, max_args), atEol |-> tok]
      ELSE ParseLoop(s, p + 1, sq, dq, <<>>, EmitToken(argv, tok, max_args), max_args)
  ELSE IF dq /\ c = BS THEN
    LET next == CharAt(s, p + 1) IN
    IF next = NUL THEN [argv |-> argv, atEol |-> tok]
    ELSE ParseLoop(s, p + 2, sq, dq, DqEscape(tok, next), argv, max_args)
  ELSE IF ~sq /\ ~dq /\ c = BS THEN
    LET next == CharAt(s, p + 1) IN
    IF next = NUL THEN [argv |-> argv, atEol |-> tok]
    ELSE ParseLoop(s, p + 2, sq, dq, AppendChar(tok, next), argv, max_args)
  ELSE ParseLoop(s, p + 1, sq, dq, AppendChar(tok, c), argv, max_args)

parse_command(s, max_args) == ParseLoop(s, 1, FALSE, FALSE, <<>>, <<>>, max_args)

(***************************************************************************)
(* Inputs of SpecTok: every line over a small alphabet up to MaxLineLen    *)
(* characters, and the sample line of the specification's tests.           *)
(***************************************************************************)
MaxLineLen == 5
TokAlphabet == {"a", SP, SQ, DQ, BS}

RECURSIVE SeqsUpTo(_, _)
SeqsUpTo(S, n) ==
  IF n = 0 THEN {<<>>}
  ELSE LET shorter == SeqsUpTo(S, n - 1) IN
       shorter \cup {Append(q, x) : q \in {r \in shorter : Len(r) = n - 1}, x \in S}

\* echo 'a b' "c d" e\ f
SampleLine ==
  <<"e", "c", "h", "o", SP, SQ, "a", SP, "b", SQ, SP,
    DQ, "c", SP, "d", DQ, SP, "e", BS, SP, "f">>

TokLines == SeqsUpTo(TokAlphabet, MaxLineLen) \cup {SampleLine}

InitTok ==
  /\ line \in TokLines
  /\ tokPc = "input"
  /\ tokArgv = <<>>
  /\ tokAtEol = <<>>
  /\ IdleRedir /\ IdleSh /\ IdleEd /\ IdlePl /\ IdlePath

\* int argc = parse_command(command, argv, MAX_ARGS);
ParseCommand ==
  /\ tokPc = "input"
  /\ LET r == parse_command(line, MAX_ARGS) IN
       /\ tokArgv' = r.argv
       /\ tokAtEol' = r.atEol
  /\ tokPc' = "parsed"
  /\ UNCHANGED <<line, redirVars, shVars, edVars, plVars, pathVars>>

NextTok == ParseCommand

SpecTok == InitTok /\ [][NextTok]_vars

(***************************************************************************)
(* The quoting rules, stated by mode (bare, single, double) as the         *)
(* specification's Tokenizer section words them; the claims compare        *)
(* parse_command with them.  pendingEscape says that the line ends on a    *)
(* backslash that has no character left to escape.                         *)
(***************************************************************************)
FlushWord(out, cur) == IF cur = <<>> THEN out ELSE Append(out, cur)

RECURSIVE RuleScan(_, _, _, _, _)
RuleScan(s, i, mode, cur, out) ==
  IF i > Len(s) THEN [toks |-> FlushWord(out, cur), pendingEscape |-> FALSE]
  ELSE
    CASE mode = "single" ->
           IF s[i] = SQ THEN RuleScan(s, i + 1, "bare", cur, out)
           ELSE RuleScan(s, i + 1, "single", Append(cur, s[i]), out)
      [] mode = "double" ->
           IF s[i] = DQ THEN RuleScan(s, i + 1, "bare", cur, out)
           ELSE IF s[i] = BS THEN
             IF i = Len(s) THEN [toks |-> FlushWord(out, cur), pendingEscape |-> TRUE]
             ELSE IF s[i + 1] \in {DQ, BS}
               THEN RuleScan(s, i + 2, "double", Append(cur, s[i + 1]), out)
               ELSE RuleScan(s, i + 2, "double", cur \o <<BS, s[i + 1]>>, out)
           ELSE RuleScan(s, i + 1, "double", Append(cur, s[i]), out)
      [] OTHER ->
           IF s[i] = SQ THEN RuleScan(s, i + 1, "single", cur, out)
           ELSE IF s[i] = DQ THEN RuleScan(s, i + 1, "double", cur, out)
           ELSE IF s[i] = BS THEN
             IF i = Len(s) THEN [toks |-> FlushWord(out, cur), pendingEscape |-> TRUE]
             ELSE RuleScan(s, i + 2, "bare", Append(cur, s[i + 1]), out)
           ELSE IF s[i] = SP THEN RuleScan(s, i + 1, "bare", <<>>, FlushWord(out, cur))
           ELSE RuleScan(s, i + 1, "bare", Append(cur, s[i]), out)

RuleTokens(s) == RuleScan(s, 1, "bare", <<>>, <<>>)

IsPrefix(a, b) == Len(a) <= Len(b) /\ \A k \in 1..Len(a) : a[k] = b[k]

C2_EndOfLineFinalizesPending ==
  (tokPc = "parsed" /\ tokAtEol # <<>>) =>
    (tokArgv # <<>> /\ tokArgv[Len(tokArgv)] = tokAtEol)

(***************************************************************************)
(* parse_redirections.  The strings parse_command allocated are numbered   *)
(* 1..n in allocation order (strs[k] is the text of allocation k); argv is *)
(* an array of pointers, 0 being NULL, and argv[n] = NULL terminates it.   *)
(* The function works on the argc entries that start at arr[base].         *)
(***************************************************************************)
NULL == 0

\* argv as parse_command leaves it: argv[i] = strdup of token i+1, argv[argc] = NULL
ArgvOf(strs) == [k \in 0..Len(strs) |-> IF k < Len(strs) THEN k + 1 ELSE NULL]

\* A mutation of the operator table: 2>> truncates instead of appending.
RedirKindMut(s) ==
  CASE s \in {">", "1>"}   -> [stream |-> "out", append |-> FALSE]
    [] s \in {">>", "1>>"} -> [stream |-> "out", append |-> TRUE]
    [] s = "2>"            -> [stream |-> "err", append |-> FALSE]
    [] s = "2>>"           -> [stream |-> "err", append |-> FALSE]
    [] OTHER               -> [stream |-> "none", append |-> FALSE]

\* The strcmp chain: which stream an operator token redirects, and how.
RedirKind(s) ==
  CASE s \in {">", "1>"}   -> [stream |-> "out", append |-> FALSE]
    [] s \in {">>", "1>>"} -> [stream |-> "out", append |-> TRUE]
    [] s = "2>"            -> [stream |-> "err", append |-> FALSE]
    [] s = "2>>"           -> [stream |-> "err", append |-> TRUE]
    [] OTHER               -> [stream |-> "none", append |-> FALSE]

\* for (j = i; j + remove_count <= argc; j++) argv[j] = argv[j + remove_count];
ShiftLeft(arr, base, argc, i, remove_count) ==
  [k \in DOMAIN arr |->
     IF base + i <= k /\ k + remove_count <= base + argc
       THEN arr[k + remove_count] ELSE arr[k]]

RECURSIVE RedirLoop(_, _, _, _)
RedirLoop(strs, base, i, st) ==
  IF i >= st.argc THEN st
  ELSE
    LET kind == RedirKind(strs[st.argv[base + i]])
        hit  == kind.stream # "none" /\ i + 1 < st.argc
    IN
    IF ~hit THEN RedirLoop(strs, base, i + 1, st)
    ELSE
      LET target == st.argv[base + i + 1] IN
      RedirLoop(strs, base, i,
        [argv       |-> ShiftLeft(st.argv, base, st.argc, i, 2),
         argc       |-> st.argc - 2,
         out        |-> IF kind.stream = "out" THEN target ELSE st.out,
         out_append |-> IF kind.stream = "out" THEN kind.append ELSE st.out_append,
         err        |-> IF kind.stream = "err" THEN target ELSE st.err,
         err_append |-> IF kind.stream = "err" THEN kind.append ELSE st.err_append,
         freed      |-> Append(st.freed, st.argv[base + i])])

parse_redirections(strs, arr, base, argc) ==
  RedirLoop(strs, base, 0,
    [argv |-> arr, argc |-> argc, out |-> NULL, out_append |-> FALSE,
     err |-> NULL, err_append |-> FALSE, freed |-> <<>>])

\* The texts of the argc arguments that start at arr[base].
ArgStrings(strs, arr, base, argc) == [k \in 1..argc |-> strs[arr[base + k - 1]]]

\* What a caller sees of parse_redirections on the tokens strs.
RedirView(strs) ==
  LET r == parse_redirections(strs, ArgvOf(strs), 0, Len(strs)) IN
  [args       |-> ArgStrings(strs, r.argv, 0, r.argc),
   out        |-> IF r.out = NULL THEN "NULL" ELSE strs[r.out],
   out_append |-> r.out_append,
   err        |-> IF r.err = NULL THEN "NULL" ELSE strs[r.err],
   err_append |-> r.err_append]

(***************************************************************************)
(* Inputs of SpecRedir: every sequence of up to MaxRedirToks tokens over   *)
(* the six operators and two plain words.                                  *)
(***************************************************************************)
MaxRedirToks == 4
RedirOps == {">", "1>", ">>", "1>>", "2>", "2>>"}
RedirTokens == RedirOps \cup {"x", "y"}

InitRedir ==
  /\ rToks \in SeqsUpTo(RedirTokens, MaxRedirToks)
  /\ rPc = "input"
  /\ rRes = <<>>
  /\ IdleTok /\ IdleSh /\ IdleEd /\ IdlePl /\ IdlePath

\* parse_redirections(&argc, argv, &redirect_out, &redirect_err, ...)
ParseRedirections ==
  /\ rPc = "input"
  /\ rRes' = RedirView(rToks)
  /\ rPc' = "resolved"
  /\ UNCHANGED <<rToks, tokVars, shVars, edVars, plVars, pathVars>>

NextRedir == ParseRedirections

SpecRedir == InitRedir /\ [][NextRedir]_vars

(***************************************************************************)
(* The resolver's contract, stated on positions of the token sequence: an  *)
(* operator is in effect when a token follows it and it is not itself the  *)
(* target of the operator before it.                                       *)
(***************************************************************************)
RECURSIVE InEffect(_, _)
InEffect(t, k) ==
  /\ t[k] \in RedirOps
  /\ k < Len(t)
  /\ (k = 1 \/ ~InEffect(t, k - 1))

IsTarget(t, k) == k > 1 /\ InEffect(t, k - 1)

StdoutOps == {">", "1>", ">>", "1>>"}
AppendOps == {">>", "1>>", "2>>"}

OpsFor(t, stream) ==
  {k \in 1..Len(t) : InEffect(t, k) /\ ((t[k] \in StdoutOps) <=> (stream = "out"))}

MaxOf(S) == CHOOSE m \in S : \A x \in S : x <= m

RECURSIVE KeptFrom(_, _)
KeptFrom(t, k) ==
  IF k > Len(t) THEN <<>>
  ELSE IF InEffect(t, k) \/ IsTarget(t, k) THEN KeptFrom(t, k + 1)
  ELSE <<t[k]>> \o KeptFrom(t, k + 1)

\* t with the operator/target pairs at k, k+1 and k+2, k+3 exchanged
SwapPairs(t, k) ==
  [j \in 1..Len(t) |->
     IF j \in {k, k + 1} THEN t[j + 2]
     ELSE IF j \in {k + 2, k + 3} THEN t[j - 2]
     ELSE t[j]]

\* C3: parse_redirections removes every operator in effect with its target,
\* keeps the other tokens in order, reports per stream the target and append
\* flag of the last operator in effect (append exactly for the doubled
\* angle), and gives the same result when an adjacent stdout and stderr
\* redirection are written in the other order.
C3_RedirectionsResolved ==
  rPc = "resolved" =>
    /\ rRes.args = KeptFrom(rToks, 1)
    /\ \A stream \in {"out", "err"} :
         LET ops    == OpsFor(rToks, stream)
             target == IF stream = "out" THEN rRes.out ELSE rRes.err
             append == IF stream = "out" THEN rRes.out_append ELSE rRes.err_append
         IN IF ops = {} THEN target = "NULL" /\ ~append
            ELSE /\ target = rToks[MaxOf(ops) + 1]
                 /\ append <=> (rToks[MaxOf(ops)] \in AppendOps)
    /\ \A k \in 1..Len(rToks) :
         (/\ InEffect(rToks, k)
          /\ k + 3 <= Len(rToks)
          /\ InEffect(rToks, k + 2)
          /\ (rToks[k] \in StdoutOps) # (rToks[k + 2] \in StdoutOps))
         => RedirView(SwapPairs(rToks, k)) = rRes

\* C3 witness: a line with a truncating stdout and an appending stderr
\* redirection has been resolved.
C3_Witness ==
  /\ rPc = "resolved"
  /\ Len(rToks) = 4
  /\ rRes.args = <<>>
  /\ rRes.out = "x" /\ ~rRes.out_append
  /\ rRes.err = "y" /\ rRes.err_append

\* C4: when the last token is an operator with no target, no target is set
\* from it and the operator is removed: no operator is left among the
\* arguments.
C4_TrailingOperatorRemoved ==
  (/\ rPc = "resolved"
   /\ rToks # <<>>
   /\ rToks[Len(rToks)] \in RedirOps
   /\ ~IsTarget(rToks, Len(rToks)))
  => \A k \in 1..Len(rRes.args) : rRes.args[k] \notin RedirOps

(***************************************************************************)
(* File descriptors.  A descriptor table maps 0..FdTop to the open file a  *)
(* descriptor refers to, or to "closed"; open and dup return the lowest    *)
(* closed descriptor.  Whether a system call succeeds is the environment's *)
(* choice: an outcome names the first call of a redirection that fails.    *)
(***************************************************************************)
FdTop == 6
STDIN_FILENO == 0
STDOUT_FILENO == 1
STDERR_FILENO == 2

StartFds ==
  [k \in 0..FdTop |->
     CASE k = STDIN_FILENO  -> "tty_in"
       [] k = STDOUT_FILENO -> "tty_out"
       [] k = STDERR_FILENO -> "tty_err"
       [] OTHER             -> "closed"]

LowestFree(t) == CHOOSE k \in DOMAIN t : t[k] = "closed" /\ \A j \in DOMAIN t : j < k => t[j] # "closed"

RedirOutcomes == {"ok", "dup_fails", "open_fails", "dup2_fails"}

\* setup_redirect_fd with should_exit_on_error = 0: open, dup2, close
setup_redirect_fd(t, path, target_fd, outcome) ==
  IF outcome = "open_fails" THEN [fds |-> t, ret |-> -1]
  ELSE LET fd == LowestFree(t)
           opened == [t EXCEPT ![fd] = path]
       IN IF outcome = "dup2_fails"
            THEN [fds |-> [opened EXCEPT ![fd] = "closed"], ret |-> -1]
            ELSE [fds |-> [opened EXCEPT ![target_fd] = path, ![fd] = "closed"], ret |-> 0]

\* A mutation of save_and_redirect_fd: the duplicate is not closed when the
\* redirection fails.
save_and_redirect_fd_Mut(t, path, target_fd, outcome) ==
  IF outcome = "dup_fails" THEN [fds |-> t, saved |-> -1]
  ELSE LET saved_fd == LowestFree(t)
           duped == [t EXCEPT ![saved_fd] = t[target_fd]]
           r == setup_redirect_fd(duped, path, target_fd, outcome)
       IN IF r.ret < 0
            THEN [fds |-> r.fds, saved |-> -1]
            ELSE [fds |-> r.fds, saved |-> saved_fd]

\* save_and_redirect_fd: dup, setup_redirect_fd, close the duplicate on failure
save_and_redirect_fd(t, path, target_fd, outcome) ==
  IF outcome = "dup_fails" THEN [fds |-> t, saved |-> -1]
  ELSE LET saved_fd == LowestFree(t)
           duped == [t EXCEPT ![saved_fd] = t[target_fd]]
           r == setup_redirect_fd(duped, path, target_fd, outcome)
       IN IF r.ret < 0
            THEN [fds |-> [r.fds EXCEPT ![saved_fd] = "closed"], saved |-> -1]
            ELSE [fds |-> r.fds, saved |-> saved_fd]

\* restore_fd: dup2(saved_fd, target_fd); close(saved_fd)
restore_fd(t, saved_fd, target_fd) ==
  IF saved_fd # -1
    THEN [t EXCEPT ![target_fd] = t[saved_fd], ![saved_fd] = "closed"]
    ELSE t

(***************************************************************************)
(* The builtin registry and the PATH cache.  ext_check searches the cached *)
(* directories in order; which executables they hold is the environment.   *)
(***************************************************************************)
Builtins == {"exit", "echo", "help", "type", "pwd", "cd"}

PathDirs == <<"/bin", "/usr/bin">>
DirHolds ==
  [d \in {"/bin", "/usr/bin"} |->
     IF d = "/bin" THEN {"ls", "echo"} ELSE {"ls", "wc", "lsof"}]

\* return NULL: no path (a path is a pair of directory and name)
NONE == <<>>

\* A mutation of the search: the last directory that holds the name wins.
RECURSIVE ExtCheckInMut(_, _, _, _)
ExtCheckInMut(dirs, ok, name, i) ==
  IF i > Len(dirs) THEN NONE
  ELSE LET later == ExtCheckInMut(dirs, ok, name, i + 1) IN
       IF later # NONE THEN later
       ELSE IF <<dirs[i], name>> \in ok THEN <<dirs[i], name>>
       ELSE NONE

\* ext_check's loop from path_dirs[i] on; ok holds the (directory, name)
\* pairs for which access(full_path, F_OK) and access(full_path, X_OK) are 0.
RECURSIVE ExtCheckIn(_, _, _, _)
ExtCheckIn(dirs, ok, name, i) ==
  IF i > Len(dirs) THEN NONE
  ELSE IF <<dirs[i], name>> \in ok THEN <<dirs[i], name>>
  ELSE ExtCheckIn(dirs, ok, name, i + 1)

\* The executables of the modelled file system, as (directory, name) pairs.
PathOk == UNION {{<<d, n>> : n \in DirHolds[d]} : d \in DOMAIN DirHolds}

ExtCheckFrom(name, i) == ExtCheckIn(PathDirs, PathOk, name, i)

ext_check(name) == ExtCheckFrom(name, 1)

(***************************************************************************)
(* One iteration of main's loop on the tokens strs of a line.              *)
(***************************************************************************)
\* for (i = 0; i < argc; i++) if (strcmp(argv[i], "|") == 0) { pipe_idx = i; break; }
PipeIdx(strs) ==
  IF \E i \in 1..Len(strs) : strs[i] = "|"
    THEN (CHOOSE i \in 1..Len(strs) : strs[i] = "|" /\ \A j \in 1..(i - 1) : strs[j] # "|") - 1
    ELSE -1

\* The text a pointer refers to; printing a NULL pointer with %s is undefined
\* and, where it does not crash, prints "(null)".
TextOf(strs, ptr) == IF ptr = NULL THEN "(null)" ELSE strs[ptr]

NonNull(ptrs) == SelectSeq(ptrs, LAMBDA q : q # NULL)

\* Some allocation is passed to free() twice.
DoubleFree(frees) ==
  \E i, j \in 1..Len(frees) : i < j /\ frees[i] = frees[j] /\ frees[i] # NULL

\* What undefined behaviour may do: crash the process, or go unnoticed.
Crashes(undefined) == IF undefined THEN {TRUE, FALSE} ELSE {FALSE}

\* The normal-execution branch: parse_redirections on the whole line, and
\* what the iteration frees (operators, targets, then argv[0..argc-1]).
Single(strs) ==
  LET r == parse_redirections(strs, ArgvOf(strs), 0, Len(strs)) IN
  [argc  |-> r.argc,
   cmd   |-> r.argv[0],
   args  |-> ArgStrings(strs, r.argv, 0, r.argc),
   out   |-> r.out,
   err   |-> r.err,
   frees |-> r.freed \o NonNull(<<r.out, r.err>>) \o [k \in 1..r.argc |-> r.argv[k - 1]]]

\* The pipeline branch: the split at pipe_idx, run_pipeline's two calls of
\* parse_redirections, and what run_pipeline and main's cleanup free.
Split(strs) ==
  LET argc  == Len(strs)
      idx   == PipeIdx(strs)
      arr0  == [ArgvOf(strs) EXCEPT ![idx] = NULL]
      argc1 == idx
      base2 == idx + 1
      argc2 == argc - (idx + 1)
      valid == argc1 > 0 /\ argc2 > 0
      r1    == parse_redirections(strs, arr0, 0, argc1)
      r2    == parse_redirections(strs, r1.argv, base2, argc2)
      last  == IF valid THEN r2.argv ELSE arr0
  IN
  [valid |-> valid,
   cmd1  |-> IF valid THEN r2.argv[0] ELSE NULL,
   cmd2  |-> IF valid THEN r2.argv[base2] ELSE NULL,
   args1 |-> IF valid THEN ArgStrings(strs, r2.argv, 0, r1.argc) ELSE <<>>,
   args2 |-> IF valid THEN ArgStrings(strs, r2.argv, base2, r2.argc) ELSE <<>>,
   out1  |-> IF valid THEN r1.out ELSE NULL,
   err1  |-> IF valid THEN r1.err ELSE NULL,
   out2  |-> IF valid THEN r2.out ELSE NULL,
   err2  |-> IF valid THEN r2.err ELSE NULL,
   frees |-> <<idx + 1>>
             \o (IF valid
                   THEN r1.freed \o r2.freed \o NonNull(<<r1.out, r1.err, r2.out, r2.err>>)
                   ELSE <<>>)
             \o NonNull([k \in 1..argc |-> last[k - 1]])]

(***************************************************************************)
(* Spec: the REPL.  read_input_line hands main a line, parse_command its   *)
(* tokens, and one action per dispatch branch runs the rest of the         *)
(* iteration, cleanup included.  Lines are all sequences of up to          *)
(* MaxLineToks tokens over a builtin, exit, an executable, a plain word,   *)
(* the pipe operator and two redirection operators, and a few longer lines *)
(* that redirect both streams.                                             *)
(***************************************************************************)
MaxLineToks == 4
ShTokens == {"echo", "exit", "ls", "f", "|", ">", "2>"}
LongLines ==
  { <<"echo", "f", ">", "f", "2>", "f">>,
    <<"exit", ">", "f", "2>", "f">>,
    <<"ls", ">", "f", "2>", "f">>,
    <<"ls", "2>", "f", "|", "ls", ">", "f", "2>", "f">>,
    <<"ls", "|", "ls", "f", "|", "ls">> }
ShLines == (SeqsUpTo(ShTokens, MaxLineToks) \ {<<>>}) \cup LongLines

NothingRan == [kind |-> "none", name |-> "", out |-> "", err |-> "", o1 |-> "", o2 |-> ""]

\* tcgetattr(&original_termios); atexit(disable_raw_mode);
\* raw.c_lflag &= ~(ICANON | ECHO); tcsetattr(&raw)
enable_raw_mode == "raw"

\* tcsetattr(STDIN_FILENO, TCSAFLUSH, &original_termios)
disable_raw_mode == "original"

\* The handlers atexit registered run when the process ends through exit()
\* or through main's return, and only then.
AtExit == termios' = IF isatty THEN disable_raw_mode ELSE termios

\* A child is a copy of the shell, the registered handler included: when it
\* ends through exit(1) (setup_redirect_fd could not open or dup2 its target,
\* or execv returned) the handler runs in the child, and tcsetattr on the
\* child's descriptor 0 changes the terminal the shell shares with it.  A
\* child whose program runs was replaced by execv and has no handler.
ChildExit(calls, onTty) ==
  termios' = IF calls /\ onTty /\ isatty THEN disable_raw_mode ELSE termios

\* if (isatty(STDIN_FILENO)) enable_raw_mode();
Init ==
  /\ shPc = "loop"
  /\ shArgv = <<>>
  /\ fds = StartFds
  /\ ran = NothingRan
  /\ spawned = <<>>
  /\ isatty \in BOOLEAN
  /\ termios = IF isatty THEN enable_raw_mode ELSE "original"
  /\ IdleTok /\ IdleRedir /\ IdleEd /\ IdlePl /\ IdlePath

\* while (1) { printf("$ "); ... : the next iteration starts
Prompt ==
  /\ shPc = "loop"
  /\ shPc' = "reading"
  /\ ran' = NothingRan
  /\ spawned' = <<>>
  /\ UNCHANGED <<isatty, termios, shArgv, fds, tokVars, redirVars, edVars, plVars, pathVars>>

\* read_input_line returned 1 and parse_command found argc > 0 tokens
ReadLine ==
  /\ shPc = "reading"
  /\ \E toks \in ShLines : shArgv' = toks
  /\ shPc' = "have_line"
  /\ UNCHANGED <<isatty, termios, fds, ran, spawned, tokVars, redirVars, edVars, plVars, pathVars>>

\* if (argc == 0) continue;
EmptyLine ==
  /\ shPc = "reading"
  /\ shPc' = "loop"
  /\ UNCHANGED <<isatty, termios, shArgv, fds, ran, spawned, tokVars, redirVars, edVars, plVars, pathVars>>

\* if (read_input_line(command, sizeof(command)) == 0) break;  ...  return 0;
EndOfInput ==
  /\ shPc = "reading"
  /\ shPc' = "exited"
  /\ AtExit
  /\ UNCHANGED <<isatty, shArgv, fds, ran, spawned, tokVars, redirVars, edVars, plVars, pathVars>>

\* The end of an iteration: back to the top of the loop unless the process died.
Finish(crash) ==
  /\ shPc' = IF crash THEN "crashed" ELSE "loop"
  /\ shArgv' = <<>>

\* pipe_idx != -1 and an empty side: fprintf(stderr, "Invalid pipeline\n")
InvalidPipeline ==
  /\ shPc = "have_line"
  /\ PipeIdx(shArgv) # -1
  /\ ~Split(shArgv).valid
  /\ \E crash \in Crashes(DoubleFree(Split(shArgv).frees)) : Finish(crash)
  /\ ran' = [NothingRan EXCEPT !.kind = "invalid_pipeline"]
  /\ UNCHANGED <<isatty, termios, fds, spawned, tokVars, redirVars, edVars, plVars, pathVars>>

\* pipe_idx != -1 and two non-empty sides: run_pipeline, then the cleanup
RunPipeline ==
  /\ shPc = "have_line"
  /\ PipeIdx(shArgv) # -1
  /\ LET s == Split(shArgv)
         found == ext_check(TextOf(shArgv, s.cmd1)) # NONE
                  /\ ext_check(TextOf(shArgv, s.cmd2)) # NONE
         nullName == s.cmd1 = NULL \/ s.cmd2 = NULL
     IN
     /\ s.valid
     /\ \E crashEarly \in Crashes(nullName) :
          IF crashEarly
            THEN /\ Finish(TRUE)
                 /\ ran' = [NothingRan EXCEPT !.kind = "pipeline"]
                 /\ spawned' = <<>>
                 /\ UNCHANGED termios
            ELSE /\ \E crash \in Crashes(DoubleFree(s.frees)) : Finish(crash)
                 /\ ran' = [NothingRan EXCEPT !.kind = IF found THEN "pipeline" ELSE "not_found"]
                 /\ spawned' = IF found THEN <<s.args1[1], s.args2[1]>> ELSE <<>>
                 \* child 1 keeps the terminal as descriptor 0; child 2's
                 \* descriptor 0 is the pipe, where tcsetattr fails
                 /\ \E exit1 \in (IF found THEN BOOLEAN ELSE {FALSE}) : ChildExit(exit1, TRUE)
  /\ UNCHANGED <<isatty, fds, tokVars, redirVars, edVars, plVars, pathVars>>

\* No pipe and no token left after parse_redirections: cmd_name = argv[0] is
\* NULL and strcmp(cmd_name, ...) is undefined.
NullCommand ==
  /\ shPc = "have_line"
  /\ PipeIdx(shArgv) = -1
  /\ Single(shArgv).cmd = NULL
  /\ \E crash \in Crashes(TRUE) : Finish(crash)
  /\ ran' = [NothingRan EXCEPT !.kind = "not_found", !.name = "(null)"]
  /\ UNCHANGED <<isatty, termios, fds, spawned, tokVars, redirVars, edVars, plVars, pathVars>>

\* A mutation of the dispatch: the PATH directories are searched before the
\* registry.
DispatchMut(name) ==
  IF ext_check(name) # NONE THEN "external"
  ELSE IF name \in Builtins THEN "builtin"
  ELSE "not_found"

\* A mutation of the dispatch: a name that is not a builtin is run as an
\* external program without asking ext_check.
DispatchNoLookup(name) ==
  IF name \in Builtins THEN "builtin" ELSE "external"

\* 1. the loop over builtins[] (found = 1); 2. if (!found) ext_check(cmd_name)
Dispatch(name) ==
  IF name \in Builtins THEN "builtin"
  ELSE IF ext_check(name) # NONE THEN "external"
  ELSE "not_found"

\* The builtin branch: save and redirect, builtins[i].func, restore
RunBuiltin ==
  /\ shPc = "have_line"
  /\ PipeIdx(shArgv) = -1
  /\ LET s == Single(shArgv) IN
     /\ s.cmd # NULL
     /\ Dispatch(shArgv[s.cmd]) = "builtin"
     /\ \E o1 \in IF s.out = NULL THEN {"none"} ELSE RedirOutcomes,
           o2 \in IF s.err = NULL THEN {"none"} ELSE RedirOutcomes :
          LET a == IF s.out = NULL THEN [fds |-> fds, saved |-> -1]
                   ELSE save_and_redirect_fd(fds, shArgv[s.out], STDOUT_FILENO, o1)
              b == IF s.err = NULL THEN [fds |-> a.fds, saved |-> -1]
                   ELSE save_and_redirect_fd(a.fds, shArgv[s.err], STDERR_FILENO, o2)
              restored == restore_fd(restore_fd(b.fds, a.saved, STDOUT_FILENO),
                                     b.saved, STDERR_FILENO)
          IN
          /\ ran' = [kind |-> "builtin", name |-> shArgv[s.cmd],
                     out |-> b.fds[STDOUT_FILENO], err |-> b.fds[STDERR_FILENO],
                     o1 |-> o1, o2 |-> o2]
          /\ IF shArgv[s.cmd] = "exit"
               THEN shPc' = "exited" /\ fds' = b.fds /\ shArgv' = <<>> /\ AtExit
               ELSE /\ fds' = restored
                    /\ UNCHANGED termios
                    /\ \E crash \in Crashes(DoubleFree(s.frees)) : Finish(crash)
  /\ UNCHANGED <<isatty, spawned, tokVars, redirVars, edVars, plVars, pathVars>>

\* Not a builtin, ext_check finds it: execute_external_program forks, the
\* child redirects and execs, the parent waits.
RunExternal ==
  /\ shPc = "have_line"
  /\ PipeIdx(shArgv) = -1
  /\ LET s == Single(shArgv) IN
     /\ s.cmd # NULL
     /\ Dispatch(shArgv[s.cmd]) = "external"
     /\ spawned' = <<s.args[1]>>
     /\ ran' = [NothingRan EXCEPT !.kind = "external", !.name = shArgv[s.cmd]]
     /\ \E exit1 \in BOOLEAN : ChildExit(exit1, TRUE)
     /\ \E crash \in Crashes(DoubleFree(s.frees)) : Finish(crash)
  /\ UNCHANGED <<isatty, fds, tokVars, redirVars, edVars, plVars, pathVars>>

\* Not a builtin and not in PATH: printf("%s: command not found\n", cmd_name)
CommandNotFound ==
  /\ shPc = "have_line"
  /\ PipeIdx(shArgv) = -1
  /\ LET s == Single(shArgv) IN
     /\ s.cmd # NULL
     /\ Dispatch(shArgv[s.cmd]) = "not_found"
     /\ ran' = [NothingRan EXCEPT !.kind = "not_found", !.name = shArgv[s.cmd]]
     /\ \E crash \in Crashes(DoubleFree(s.frees)) : Finish(crash)
  /\ UNCHANGED <<isatty, termios, fds, spawned, tokVars, redirVars, edVars, plVars, pathVars>>

Next ==
  \/ Prompt
  \/ ReadLine
  \/ EmptyLine
  \/ EndOfInput
  \/ InvalidPipeline
  \/ RunPipeline
  \/ NullCommand
  \/ RunBuiltin
  \/ RunExternal
  \/ CommandNotFound

Spec == Init /\ [][Next]_vars

\* C5: whenever the shell is at its prompt (at the top of the loop, reading,
\* or holding a line it has not yet run), descriptors 1 and 2 refer to the
\* files they referred to at startup and no other descriptor above 2 is
\* open, whatever redirections the earlier builtins ran with and whichever
\* of their system calls failed.
C5_DescriptorsRestoredAtPrompt ==
  shPc \in {"loop", "reading", "have_line"} =>
    /\ fds[STDOUT_FILENO] = "tty_out"
    /\ fds[STDERR_FILENO] = "tty_err"
    /\ \A k \in 3..FdTop : fds[k] = "closed"

\* C5 witness: a builtin has run with its standard output redirected to f
\* while its error redirection failed to open, and the loop is back at its top.
C5_Witness ==
  /\ shPc = "loop"
  /\ ran.kind = "builtin"
  /\ ran.o1 = "ok" /\ ran.out = "f"
  /\ ran.o2 = "open_fails" /\ ran.err = "tty_err"

\* C6: no line crashes the shell.
C6_NoLineCrashesTheRepl == shPc # "crashed"

PipeCount(strs) == Cardinality({i \in 1..Len(strs) : strs[i] = "|"})

\* C9: a line with more than one | token is rejected: handling it spawns no
\* process.
C9_MultiplePipesRejected ==
  [][(shPc = "have_line" /\ PipeCount(shArgv) > 1) => spawned' = <<>>]_vars

(***************************************************************************)
(* SpecEdit: main's loop around read_input_line, byte by byte.  stdin is   *)
(* the input still to come; when it is used up, read() returns 0 (the      *)
(* native end of stream of a pipe or a file).  The bytes fed here hold no  *)
(* tab.                                                                    *)
(***************************************************************************)
EOT == "EOT"
NL == "NL"
DEL == "DEL"
ESC == "ESC"
TAB == "TAB"
\* '\r' and '\b'
CR == "CR"
BSP == "BSP"

\* char command[1024]
COMMAND_SIZE == 1024
\* char prefix[128]
PREFIX_SIZE == 128

iscntrl(c) == c \in {EOT, NL, DEL, ESC, TAB, CR, BSP}

\* The names of the registry and of the PATH directories, as C strings.
Str(name) ==
  CASE name = "exit" -> <<"e", "x", "i", "t">>
    [] name = "echo" -> <<"e", "c", "h", "o">>
    [] name = "help" -> <<"h", "e", "l", "p">>
    [] name = "type" -> <<"t", "y", "p", "e">>
    [] name = "pwd"  -> <<"p", "w", "d">>
    [] name = "cd"   -> <<"c", "d">>
    [] name = "ls"   -> <<"l", "s">>
    [] name = "lsof" -> <<"l", "s", "o", "f">>
    [] name = "wc"   -> <<"w", "c">>

\* The byte order strcmp compares by.
CharOrder ==
  <<" ", "a", "c", "d", "e", "f", "h", "i", "l", "o", "p", "s", "t", "w", "x", "y">>
Ord(c) == CHOOSE k \in 1..Len(CharOrder) : CharOrder[k] = c

\* strncmp(name, prefix, strlen(prefix)) == 0
StartsWith(s, prefix) ==
  Len(prefix) <= Len(s) /\ \A k \in 1..Len(prefix) : s[k] = prefix[k]

\* strcmp(a, b) < 0
StrLess(a, b) ==
  \E k \in 1..Len(b) :
    /\ k <= Len(a) + 1
    /\ \A j \in 1..(k - 1) : a[j] = b[j]
    /\ (k = Len(a) + 1 \/ Ord(a[k]) < Ord(b[k]))

\* qsort(matches, count, sizeof(char *), compare_strings) on distinct strings
Sorted(S) ==
  CHOOSE s \in [1..Cardinality(S) -> S] :
    \A i, j \in 1..Cardinality(S) : i < j => StrLess(s[i], s[j])

\* The builtin names and the executable names of every PATH directory that
\* start with the prefix, each once, sorted; nothing for an empty prefix.
get_completions(prefix) ==
  IF Len(prefix) = 0 THEN <<>>
  ELSE LET names == Builtins \cup UNION {DirHolds[PathDirs[i]] : i \in 1..Len(PathDirs)}
       IN Sorted({Str(n) : n \in {m \in names : StartsWith(Str(m), prefix)}})

\* find_lcp's loop from matches[i] on, with the candidate cut to len so far
RECURSIVE LcpFrom(_, _, _)
LcpFrom(matches, i, prefix) ==
  IF i > Len(matches) THEN prefix
  ELSE LET agree == {j \in 0..Len(prefix) :
                       /\ j <= Len(matches[i])
                       /\ \A k \in 1..j : prefix[k] = matches[i][k]}
           len == CHOOSE j \in agree : \A k \in agree : k <= j
       IN LcpFrom(matches, i + 1, SubSeq(prefix, 1, len))

find_lcp(matches) ==
  IF Len(matches) = 1 THEN matches[1] ELSE LcpFrom(matches, 2, matches[1])

\* The word read_input_line isolates on a tab: skip the blanks at the start
\* of the buffer, then copy up to the next whitespace (or PREFIX_SIZE - 1
\* bytes).
TabStart(buf) ==
  LET blanks == {s \in 0..Len(buf) : \A k \in 1..s : buf[k] \in {SP, TAB}}
  IN CHOOSE s \in blanks : \A k \in blanks : k <= s

TabPrefix(buf) ==
  LET start == TabStart(buf)
      runs == {i \in 0..(Len(buf) - start) :
                 /\ i <= PREFIX_SIZE - 1
                 /\ \A k \in 1..i : ~isspace(buf[start + k])}
      i == CHOOSE n \in runs : \A k \in runs : k <= n
  IN SubSeq(buf, start + 1, start + i)

NoTab == [before |-> <<>>, prefix |-> <<>>, matches |-> <<>>, did |-> "none"]

\* A mutation of the capacity test: there is always room.
RoomMut(len, extra, size) == TRUE

\* len + ... < size: extra more bytes fit and leave the last byte of the
\* array to the terminator (len < size - 1 for one printable byte)
Room(len, extra, size) == len + extra < size

\* if (c == '\t') { ... continue; } for the buffer buf, its capacity size
\* and the tab_count tc: the buffer, the counter and the branch afterwards.
OnTab(buf, size, tc) ==
  LET prefix == TabPrefix(buf)
      matches == get_completions(prefix)
      len == Len(buf)
      prefix_len == Len(prefix)
  IN
  IF Len(matches) = 0 THEN [buffer |-> buf, tab_count |-> 0, did |-> "nomatch"]
  ELSE IF Len(matches) = 1 THEN
    LET comp_len == Len(matches[1]) IN
    IF Room(len, (comp_len - prefix_len) + 1, size)
      THEN [buffer |-> buf \o SubSeq(matches[1], prefix_len + 1, comp_len) \o <<SP>>,
            tab_count |-> 0, did |-> "complete"]
      ELSE [buffer |-> buf, tab_count |-> 0, did |-> "dropped"]
  ELSE
    LET lcp == find_lcp(matches)
        lcp_len == Len(lcp)
    IN
    IF lcp_len > prefix_len THEN
      IF Room(len, lcp_len - prefix_len, size)
        THEN [buffer |-> buf \o SubSeq(lcp, prefix_len + 1, lcp_len),
              tab_count |-> 0, did |-> "extend"]
        ELSE [buffer |-> buf, tab_count |-> 0, did |-> "dropped"]
    ELSE IF tc = 0 THEN [buffer |-> buf, tab_count |-> 1, did |-> "bell"]
    ELSE [buffer |-> buf, tab_count |-> 0, did |-> "list"]

MaxInput == 4
MaxPrompts == 3
MaxKeys == 3
EdBytes == {"a", NL, EOT, DEL, ESC}
\* The other backspace and the other line end.
EdBytesMore == {"a", BSP, CR, EOT}

\* Lines that fill the array: 1023 printable bytes and one more; a first
\* word with one candidate (`ec`) whose completion does not fit, or just
\* fits; a first word with several candidates (`l`) whose extension does
\* not fit.
Fill(n) == [i \in 1..n |-> "a"]
LongInputs ==
  { Fill(COMMAND_SIZE - 1) \o <<"a", DEL, "a", NL>>,
    <<"e", "c", SP>> \o Fill(COMMAND_SIZE - 6) \o <<TAB, NL>>,
    <<"e", "c", SP>> \o Fill(COMMAND_SIZE - 7) \o <<TAB, "a", NL>>,
    <<"l", SP>> \o Fill(COMMAND_SIZE - 3) \o <<TAB, NL>> }

\* What is typed before the keys of a completion: nothing, one word (with no,
\* one or several candidates), a word after blanks, a second word, a word
\* and a blank.
TypedLines ==
  { <<>>, <<"a">>, <<"e">>, <<"e", "c">>, <<"l">>, <<SP, "e">>,
    <<"e", "c", "h", "o", SP, "e">>, <<"l", "s", SP>> }
TabKeys == {TAB, "a", DEL, ESC}
TabInputs == {w \o k : w \in TypedLines, k \in SeqsUpTo(TabKeys, MaxKeys)}

InitEdit ==
  /\ edPc = "loop"
  /\ stdin \in SeqsUpTo(EdBytes, MaxInput) \cup SeqsUpTo(EdBytesMore, MaxInput)
                \cup TabInputs
  /\ buffer = <<>>
  /\ edAbove = <<>>
  /\ edRet = -1
  /\ edSawEof = FALSE
  /\ edPrompts = 0
  /\ edArgv = <<>>
  /\ tab_count = 0
  /\ edTab = NoTab
  /\ IdleTok /\ IdleRedir /\ IdleSh /\ IdlePl /\ IdlePath

\* printf("$ "); read_input_line(command, sizeof(command)): memset, len = 0,
\* tab_count = 0
EdPrompt ==
  /\ edPc = "loop"
  /\ edPrompts < MaxPrompts
  /\ edPrompts' = edPrompts + 1
  /\ buffer' = <<>>
  /\ edAbove' = <<>>
  /\ tab_count' = 0
  /\ edTab' = NoTab
  /\ edRet' = -1
  /\ edPc' = "read"
  /\ UNCHANGED <<stdin, edSawEof, edArgv, tokVars, redirVars, shVars, plVars, pathVars>>

\* How read_input_line leaves its loop: the value it returns and where main
\* goes with it (a 0 breaks main's loop, and main returns).
Return(value) ==
  /\ edRet' = value
  /\ edPc' = IF value = 0 THEN "exited" ELSE "line"

\* if (read(STDIN_FILENO, &c, 1) != 1) break;  ...  return 1;
AtEndOfStream == Return(1)

\* One iteration of read_input_line's loop on a byte that read() delivered.
\* The array above the new length after the code wrote n bytes from the old
\* length on and a NUL after them: the bytes it did not reach are as before.
AboveAfter(above, n) ==
  LET rest == IF n + 1 >= Len(above) THEN <<>> ELSE SubSeq(above, n + 2, Len(above))
  IN IF rest = <<>> THEN <<>> ELSE <<NUL>> \o rest

\* A mutation of the backspace test: only DEL is a backspace.
IsBackspaceMut(c) == c = DEL

\* if (c == 127 || c == '\b')
IsBackspace(c) == c \in {DEL, BSP}

OnByte(c) ==
  IF c = EOT THEN
    /\ IF Len(buffer) = 0 THEN Return(0) ELSE Return(1)
    /\ edTab' = NoTab
    /\ UNCHANGED <<buffer, edAbove, tab_count>>
  ELSE IF c = NL \/ c = CR THEN
    \* buffer[len] = '\0'; return 1;
    /\ Return(1)
    /\ edTab' = NoTab
    /\ edAbove' = AboveAfter(edAbove, 0)
    /\ UNCHANGED <<buffer, tab_count>>
  ELSE IF c = TAB THEN
    LET r == OnTab(buffer, COMMAND_SIZE, tab_count) IN
    /\ buffer' = r.buffer
    \* strcpy and buffer[len] = '\0' leave a NUL after the bytes they wrote
    /\ edAbove' = IF r.did \in {"complete", "extend"}
                    THEN AboveAfter(edAbove, Len(r.buffer) - Len(buffer))
                    ELSE edAbove
    /\ tab_count' = r.tab_count
    /\ edTab' = [before |-> buffer, prefix |-> TabPrefix(buffer),
                 matches |-> get_completions(TabPrefix(buffer)), did |-> r.did]
    /\ UNCHANGED <<edRet, edPc>>
  ELSE IF IsBackspace(c) THEN
    \* len--; buffer[len] = '\0';
    /\ tab_count' = 0
    /\ edTab' = NoTab
    /\ buffer' = IF Len(buffer) > 0 THEN SubSeq(buffer, 1, Len(buffer) - 1) ELSE buffer
    /\ edAbove' = IF Len(buffer) > 0 /\ edAbove # <<>> THEN <<NUL>> \o edAbove ELSE edAbove
    /\ UNCHANGED <<edRet, edPc>>
  ELSE
    \* buffer[len++] = c; writes no terminator
    /\ tab_count' = 0
    /\ edTab' = NoTab
    /\ buffer' = IF Room(Len(buffer), 1, COMMAND_SIZE) /\ ~iscntrl(c)
                   THEN Append(buffer, c) ELSE buffer
    /\ edAbove' = IF Room(Len(buffer), 1, COMMAND_SIZE) /\ ~iscntrl(c) /\ edAbove # <<>>
                    THEN Tail(edAbove) ELSE edAbove
    /\ UNCHANGED <<edRet, edPc>>

EdKey ==
  /\ edPc = "read"
  /\ stdin # <<>>
  /\ OnByte(Head(stdin))
  /\ stdin' = Tail(stdin)
  /\ UNCHANGED <<edSawEof, edPrompts, edArgv, tokVars, redirVars, shVars, plVars, pathVars>>

EdEndOfStream ==
  /\ edPc = "read"
  /\ stdin = <<>>
  /\ edSawEof' = TRUE
  /\ AtEndOfStream
  /\ UNCHANGED <<stdin, buffer, edAbove, edPrompts, edArgv, tab_count, edTab,
                 tokVars, redirVars, shVars, plVars, pathVars>>

\* parse_command, the dispatch of the line (no line typed here invokes
\* exit), the cleanup, and back to the top of the loop
EdRunLine ==
  /\ edPc = "line"
  /\ edArgv' = parse_command(buffer, MAX_ARGS).argv
  /\ edPc' = "loop"
  /\ UNCHANGED <<stdin, buffer, edAbove, edRet, edSawEof, edPrompts, tab_count, edTab,
                 tokVars, redirVars, shVars, plVars, pathVars>>

NextEdit == EdPrompt \/ EdKey \/ EdEndOfStream \/ EdRunLine

SpecEdit == InitEdit /\ [][NextEdit]_vars

(***************************************************************************)
(* SpecLine: one call of read_input_line, from its memset to its return,   *)
(* on the inputs of SpecEdit and on the lines that fill the array.         *)
(***************************************************************************)
InitLine ==
  /\ edPc = "loop"
  /\ stdin \in SeqsUpTo(EdBytes, MaxInput) \cup SeqsUpTo(EdBytesMore, MaxInput)
                \cup TabInputs \cup LongInputs
  /\ buffer = <<>>
  /\ edAbove = <<>>
  /\ edRet = -1
  /\ edSawEof = FALSE
  /\ edPrompts = 0
  /\ edArgv = <<>>
  /\ tab_count = 0
  /\ edTab = NoTab
  /\ IdleTok /\ IdleRedir /\ IdleSh /\ IdlePl /\ IdlePath

NextLine == EdPrompt \/ EdKey \/ EdEndOfStream

SpecLine == InitLine /\ [][NextLine]_vars

\* C7: once a one-byte read has returned no byte, read_input_line has
\* signalled "no more input" (returned 0) and main's loop has ended.
C7_EndOfStreamEndsTheShell ==
  edSawEof => (edRet = 0 /\ edPc = "exited")

(***************************************************************************)
(* SpecPipe: run_pipeline with its two children.  The parent and each      *)
(* child take their steps in any order.  The line is `cmd1 [> o1] [2> e1]  *)
(* | cmd2 [> o2] [2> e2]`; stage 1's program writes toWrite on its         *)
(* descriptor 1 and exits, stage 2's program reads its descriptor 0 to the *)
(* end of the stream (or gives up early) and exits.                        *)
(***************************************************************************)
MaxData == 2
PipeCap == 2
\* What stage 1's program writes: up to MaxData bytes, all different, so
\* that a lost, repeated or reordered byte shows.
DataBytes == {[i \in 1..n |-> i] : n \in 0..MaxData}

RedirChoices(o, e) == {<<>>, <<">", o>>, <<"2>", e>>, <<">", o, "2>", e>>}

PlLines ==
  {<<c1>> \o r1 \o <<"|">> \o <<c2>> \o r2 :
     c1 \in {"ls", "f"}, r1 \in RedirChoices("o1", "e1"),
     c2 \in {"wc", "f"}, r2 \in RedirChoices("o2", "e2")}

\* The lines of a single external command: `ls [> o1] [2> e1]`.
SingleLines == {<<"ls">> \o r : r \in RedirChoices("o1", "e1")}

\* A single command in the shape of a split: one side, no second command.
OneSide(l) ==
  [valid |-> FALSE, cmd1 |-> Single(l).cmd, cmd2 |-> NULL,
   args1 |-> Single(l).args, args2 |-> <<>>,
   out1 |-> Single(l).out, err1 |-> Single(l).err, out2 |-> NULL, err2 |-> NULL,
   frees |-> Single(l).frees]

\* The split and the parse_redirections of each line, computed once.
PlSplit ==
  [l \in PlLines \cup SingleLines |-> IF PipeIdx(l) # -1 THEN Split(l) ELSE OneSide(l)]

AllClosed == [k \in 0..FdTop |-> "closed"]

\* int pipefd[2]; pipe(pipefd): the two lowest free descriptors
PipeFds ==
  LET r == LowestFree(StartFds)
      w == LowestFree([StartFds EXCEPT ![r] = "pipe_r"])
  IN <<r, w>>

Holds(t, end) == \E k \in DOMAIN t : t[k] = end
\* Some process holds this end of the pipe open.
EndOpen(end) == Holds(pfds, end) \/ Holds(cfds[1], end) \/ Holds(cfds[2], end)

\* What ext_check leaves in its static buffer: the candidate it returns, or
\* the last candidate it built when no directory holds the name.
BufferAfter(name) ==
  IF ext_check(name) # NONE THEN ext_check(name)
  ELSE <<PathDirs[Len(PathDirs)], name>>

NoPath == [at |-> "null", text |-> NONE]

\* A mutation of the copy: the pointer into ext_check's static buffer is
\* kept instead of a copy of the string.
strdup_Mut(s) == [at |-> "static", text |-> s]

\* strdup(path_static): a string of its own on the heap
strdup(s) == [at |-> "heap", text |-> s]

\* The string a held path points to now.
PathText(ptr) ==
  IF ptr.at = "null" THEN NONE
  ELSE IF ptr.at = "static" THEN full_path
  ELSE ptr.text

\* run_pipeline starts with the resolution of both names; a single command
\* reaches execute_external_program with the path ext_check found, a
\* pointer to the static buffer.
InitPipe ==
  /\ plLine \in PlLines \cup SingleLines
  /\ ppc = IF PipeIdx(plLine) # -1 THEN "start" ELSE "xfork"
  /\ pfds = StartFds
  /\ pids = <<"unset", "unset">>
  /\ cpc = <<"none", "none">>
  /\ cfds = <<AllClosed, AllClosed>>
  /\ reaped = {}
  /\ pipeBuf = <<>>
  /\ toWrite \in DataBytes
  /\ wrote1 = <<>>
  /\ read2 = <<>>
  /\ eof2 = FALSE
  /\ plMsg = ""
  /\ full_path = IF PipeIdx(plLine) # -1 THEN <<>> ELSE BufferAfter(plLine[1])
  /\ plPaths = IF PipeIdx(plLine) # -1 THEN <<NoPath, NoPath>>
               ELSE <<[at |-> "static", text |-> <<>>], NoPath>>
  /\ execd = <<NONE, NONE>>
  /\ IdleTok /\ IdleRedir /\ IdleSh /\ IdleEd /\ IdlePath

\* The command name of a side after both parse_redirections calls.
CmdName(c) ==
  LET s == PlSplit[plLine] IN TextOf(plLine, IF c = 1 THEN s.cmd1 ELSE s.cmd2)

\* (parse_redirections for both sides, then) for side c:
\* char *path_static = ext_check(argv[0]);
\* char *path = path_static ? strdup(path_static) : NULL;
PResolve(c) ==
  /\ ppc = (IF c = 1 THEN "start" ELSE "resolve2")
  /\ full_path' = BufferAfter(CmdName(c))
  /\ plPaths' = [plPaths EXCEPT ![c] = IF ext_check(CmdName(c)) # NONE
                                         THEN strdup(ext_check(CmdName(c)))
                                         ELSE NoPath]
  /\ ppc' = (IF c = 1 THEN "resolve2" ELSE "resolved")
  /\ UNCHANGED <<plLine, pfds, pids, cpc, cfds, reaped, pipeBuf, toWrite, wrote1, read2,
                 eof2, plMsg, execd, tokVars, redirVars, shVars, edVars, pathVars>>

\* if (!path1) { printf("%s: command not found\n", argv1[0]); ...; return; }
\* if (!path2) { printf("%s: command not found\n", argv2[0]); ...; return; }
PNotFound ==
  /\ ppc = "resolved"
  /\ plPaths[1] = NoPath \/ plPaths[2] = NoPath
  /\ plMsg' = IF plPaths[1] = NoPath THEN "command not found: 1"
              ELSE "command not found: 2"
  /\ ppc' = "done"
  /\ UNCHANGED <<plLine, pfds, pids, cpc, cfds, reaped, pipeBuf, toWrite, wrote1, read2,
                 eof2, full_path, plPaths, execd,
                 tokVars, redirVars, shVars, edVars, pathVars>>

\* int pipefd[2]; if (pipe(pipefd) < 0) { perror("pipe"); ...; return; }
PPipe ==
  /\ ppc = "resolved"
  /\ plPaths[1] # NoPath /\ plPaths[2] # NoPath
  /\ \E pipeOk \in BOOLEAN :
       IF pipeOk
         THEN /\ pfds' = [pfds EXCEPT ![PipeFds[1]] = "pipe_r", ![PipeFds[2]] = "pipe_w"]
              /\ ppc' = "fork1"
              /\ UNCHANGED plMsg
         ELSE /\ plMsg' = "pipe"
              /\ ppc' = "done"
              /\ UNCHANGED pfds
  /\ UNCHANGED <<plLine, pids, cpc, cfds, reaped, pipeBuf, toWrite, wrote1, read2, eof2,
                 full_path, plPaths, execd,
                 tokVars, redirVars, shVars, edVars, pathVars>>

\* pid_t pid1 = fork();  /  pid_t pid2 = fork();
PFork(c) ==
  /\ ppc = (IF c = 1 THEN "fork1" ELSE "fork2")
  /\ \E ok \in BOOLEAN :
       IF ok
         THEN /\ pids' = [pids EXCEPT ![c] = "child"]
              /\ cpc' = [cpc EXCEPT ![c] = "setup"]
              /\ cfds' = [cfds EXCEPT ![c] = pfds]
         ELSE /\ pids' = [pids EXCEPT ![c] = "failed"]
              /\ UNCHANGED <<cpc, cfds>>
  /\ ppc' = (IF c = 1 THEN "fork2" ELSE "close_r")
  /\ UNCHANGED <<plLine, full_path, plPaths, execd, pfds, reaped, pipeBuf, toWrite, wrote1, read2, eof2, plMsg,
                 tokVars, redirVars, shVars, edVars, pathVars>>

\* A mutation of the parent: it goes on without closing the pipe end.
PCloseMut(k) ==
  /\ ppc = (IF k = 1 THEN "close_r" ELSE "close_w")
  /\ ppc' = (IF k = 1 THEN "close_w" ELSE "wait1")
  /\ UNCHANGED <<plLine, full_path, plPaths, execd, pfds, pids, cpc, cfds, reaped, pipeBuf,
                 toWrite, wrote1, read2, eof2, plMsg,
                 tokVars, redirVars, shVars, edVars, pathVars>>

\* execute_external_program: pid_t pid = fork();
\* if (pid < 0) { perror("fork"); return; }
XFork ==
  /\ ppc = "xfork"
  /\ \E ok \in BOOLEAN :
       IF ok
         THEN /\ pids' = [pids EXCEPT ![1] = "child"]
              /\ cpc' = [cpc EXCEPT ![1] = "redir"]
              /\ cfds' = [cfds EXCEPT ![1] = pfds]
              /\ ppc' = "xwait"
              /\ UNCHANGED plMsg
         ELSE /\ pids' = [pids EXCEPT ![1] = "failed"]
              /\ plMsg' = "fork"
              /\ ppc' = "done"
              /\ UNCHANGED <<cpc, cfds>>
  /\ UNCHANGED <<plLine, full_path, plPaths, execd, pfds, reaped, pipeBuf, toWrite, wrote1,
                 read2, eof2, tokVars, redirVars, shVars, edVars, pathVars>>

\* close(pipefd[0]);  /  close(pipefd[1]);  in the parent
PClose(k) ==
  /\ ppc = (IF k = 1 THEN "close_r" ELSE "close_w")
  /\ pfds' = [pfds EXCEPT ![PipeFds[k]] = "closed"]
  /\ ppc' = (IF k = 1 THEN "close_w" ELSE "wait1")
  /\ UNCHANGED <<plLine, full_path, plPaths, execd, pids, cpc, cfds, reaped, pipeBuf, toWrite, wrote1, read2, eof2,
                 plMsg, tokVars, redirVars, shVars, edVars, pathVars>>

Terminated(c) == cpc[c] \in {"failed", "exited"}
\* A child that exists as a process (running or not yet collected).
Exists(c) == pids[c] = "child" /\ c \notin reaped

\* waitpid(pid1, NULL, 0);  /  waitpid(pid2, NULL, 0);  A pid of -1 (the
\* fork failed) waits for any child; with no child to wait for, waitpid
\* returns at once.
\* A mutation of the parent's wait: the call returns at once, whether or
\* not the child has terminated (a wait that does not block).
PWaitMut(c) ==
  /\ ppc = (IF c = 1 THEN "wait1" ELSE "wait2")
  /\ reaped' = reaped \cup {d \in {1, 2} : Exists(d) /\ Terminated(d)}
  /\ ppc' = (IF c = 1 THEN "wait2" ELSE "done")
  /\ UNCHANGED <<plLine, full_path, plPaths, execd, pfds, pids, cpc, cfds, pipeBuf, toWrite, wrote1, read2, eof2,
                 plMsg, tokVars, redirVars, shVars, edVars, pathVars>>

\* waitpid(pid1, NULL, 0);  /  waitpid(pid2, NULL, 0);  A pid of -1 waits
\* for any child, and returns at once when there is none.
PWait(c) ==
  /\ ppc = (IF c = 1 THEN "wait1" ELSE "wait2")
  /\ IF pids[c] = "child"
       THEN IF c \in reaped THEN UNCHANGED reaped
            ELSE Terminated(c) /\ reaped' = reaped \cup {c}
       ELSE IF ~\E d \in {1, 2} : Exists(d) THEN UNCHANGED reaped
            ELSE \E d \in {1, 2} :
                   Exists(d) /\ Terminated(d) /\ reaped' = reaped \cup {d}
  /\ ppc' = (IF c = 1 THEN "wait2" ELSE "done")
  /\ UNCHANGED <<plLine, full_path, plPaths, execd, pfds, pids, cpc, cfds, pipeBuf, toWrite, wrote1, read2, eof2,
                 plMsg, tokVars, redirVars, shVars, edVars, pathVars>>

\* execute_external_program, the parent: waitpid(pid, &status, 0);
XWait ==
  /\ ppc = "xwait"
  /\ Terminated(1)
  /\ reaped' = reaped \cup {1}
  /\ ppc' = "done"
  /\ UNCHANGED <<plLine, full_path, plPaths, execd, pfds, pids, cpc, cfds, pipeBuf, toWrite,
                 wrote1, read2, eof2, plMsg,
                 tokVars, redirVars, shVars, edVars, pathVars>>

\* A mutation of the children's wiring: stage 1 puts the pipe's write end on
\* descriptor 2.
ChildSetupMut(c, t) ==
  IF c = 1
    THEN [t EXCEPT ![PipeFds[1]] = "closed", ![STDERR_FILENO] = t[PipeFds[2]],
                   ![PipeFds[2]] = "closed"]
    ELSE [t EXCEPT ![PipeFds[2]] = "closed", ![STDIN_FILENO] = t[PipeFds[1]],
                   ![PipeFds[1]] = "closed"]

\* Child 1: close(pipefd[0]); dup2(pipefd[1], STDOUT_FILENO); close(pipefd[1]);
\* Child 2: close(pipefd[1]); dup2(pipefd[0], STDIN_FILENO);  close(pipefd[0]);
ChildSetup(c, t) ==
  IF c = 1
    THEN [t EXCEPT ![PipeFds[1]] = "closed", ![STDOUT_FILENO] = t[PipeFds[2]],
                   ![PipeFds[2]] = "closed"]
    ELSE [t EXCEPT ![PipeFds[2]] = "closed", ![STDIN_FILENO] = t[PipeFds[1]],
                   ![PipeFds[1]] = "closed"]

CSetup(c) ==
  /\ cpc[c] = "setup"
  /\ cfds' = [cfds EXCEPT ![c] = ChildSetup(c, cfds[c])]
  /\ cpc' = [cpc EXCEPT ![c] = "redir"]
  /\ UNCHANGED <<plLine, full_path, plPaths, execd, ppc, pfds, pids, reaped, pipeBuf, toWrite, wrote1, read2, eof2,
                 plMsg, tokVars, redirVars, shVars, edVars, pathVars>>

\* The targets a child applies: in a pipeline child 1 only err1, child 2
\* out2 and err2; the child of a single command redirect_out and redirect_err.
AppliedOut(c, s) == IF c = 1 THEN (IF s.valid THEN NULL ELSE s.out1) ELSE s.out2
AppliedErr(c, s) == IF c = 1 THEN s.err1 ELSE s.err2

ChildOutcomes == {"ok", "open_fails", "dup2_fails"}

\* if (out) setup_redirect_fd(out, STDOUT_FILENO, 1, ..); if (err) ...;
\* execv(path, argv); perror("execv"); exit(1);
CExec(c) ==
  /\ cpc[c] = "redir"
  /\ LET s == PlSplit[plLine]
         out == AppliedOut(c, s)
         err == AppliedErr(c, s)
     IN
     \E o1 \in IF out = NULL THEN {"none"} ELSE ChildOutcomes,
        o2 \in IF err = NULL THEN {"none"} ELSE ChildOutcomes,
        execOk \in BOOLEAN :
       LET a == IF out = NULL THEN [fds |-> cfds[c], ret |-> 0]
                ELSE setup_redirect_fd(cfds[c], plLine[out], STDOUT_FILENO, o1)
           b == IF err = NULL \/ a.ret < 0 THEN a
                ELSE setup_redirect_fd(a.fds, plLine[err], STDERR_FILENO, o2)
       IN
       /\ execd' = IF a.ret < 0 \/ b.ret < 0 THEN execd
                   ELSE [execd EXCEPT ![c] = PathText(plPaths[c])]
       /\ IF a.ret < 0 \/ b.ret < 0 \/ ~execOk
            THEN /\ cpc' = [cpc EXCEPT ![c] = "failed"]
                 /\ cfds' = [cfds EXCEPT ![c] = AllClosed]
            ELSE /\ cpc' = [cpc EXCEPT ![c] = "running"]
                 /\ cfds' = [cfds EXCEPT ![c] = b.fds]
  /\ UNCHANGED <<plLine, full_path, plPaths, ppc, pfds, pids, reaped, pipeBuf, toWrite, wrote1, read2, eof2,
                 plMsg, tokVars, redirVars, shVars, edVars, pathVars>>

\* Stage 1's program writes one byte on descriptor 1.  Into the pipe: the
\* write waits while the pipe is full and kills the writer (SIGPIPE) when no
\* read end is open.
S1Write ==
  /\ cpc[1] = "running"
  /\ toWrite # <<>>
  /\ IF cfds[1][STDOUT_FILENO] = "pipe_w"
       THEN IF ~EndOpen("pipe_r")
              THEN /\ cpc' = [cpc EXCEPT ![1] = "exited"]
                   /\ cfds' = [cfds EXCEPT ![1] = AllClosed]
                   /\ UNCHANGED <<pipeBuf, toWrite, wrote1>>
              ELSE /\ Len(pipeBuf) < PipeCap
                   /\ pipeBuf' = Append(pipeBuf, Head(toWrite))
                   /\ wrote1' = Append(wrote1, Head(toWrite))
                   /\ toWrite' = Tail(toWrite)
                   /\ UNCHANGED <<cpc, cfds>>
       ELSE /\ wrote1' = Append(wrote1, Head(toWrite))
            /\ toWrite' = Tail(toWrite)
            /\ UNCHANGED <<pipeBuf, cpc, cfds>>
  /\ UNCHANGED <<plLine, full_path, plPaths, execd, ppc, pfds, pids, reaped, read2, eof2, plMsg,
                 tokVars, redirVars, shVars, edVars, pathVars>>

\* Stage 1's program has written everything and exits.
S1Exit ==
  /\ cpc[1] = "running"
  /\ toWrite = <<>>
  /\ cpc' = [cpc EXCEPT ![1] = "exited"]
  /\ cfds' = [cfds EXCEPT ![1] = AllClosed]
  /\ UNCHANGED <<plLine, full_path, plPaths, execd, ppc, pfds, pids, reaped, pipeBuf, toWrite, wrote1, read2, eof2,
                 plMsg, tokVars, redirVars, shVars, edVars, pathVars>>

\* Stage 2's program reads one byte on descriptor 0: the pipe's oldest
\* byte, or end-of-stream once the pipe is empty and no write end is open.
S2Read ==
  /\ cpc[2] = "running"
  /\ ~eof2
  /\ cfds[2][STDIN_FILENO] = "pipe_r"
  /\ IF pipeBuf # <<>>
       THEN /\ read2' = Append(read2, Head(pipeBuf))
            /\ pipeBuf' = Tail(pipeBuf)
            /\ UNCHANGED eof2
       ELSE /\ ~EndOpen("pipe_w")
            /\ eof2' = TRUE
            /\ UNCHANGED <<read2, pipeBuf>>
  /\ UNCHANGED <<plLine, full_path, plPaths, execd, ppc, pfds, pids, cpc, cfds, reaped, toWrite, wrote1, plMsg,
                 tokVars, redirVars, shVars, edVars, pathVars>>

\* Stage 2's program gives up before the end of its input (as head does).
S2Quit ==
  /\ cpc[2] = "running"
  /\ ~eof2
  /\ cpc' = [cpc EXCEPT ![2] = "exited"]
  /\ cfds' = [cfds EXCEPT ![2] = AllClosed]
  /\ UNCHANGED <<plLine, full_path, plPaths, execd, ppc, pfds, pids, reaped, pipeBuf, toWrite, wrote1, read2, eof2,
                 plMsg, tokVars, redirVars, shVars, edVars, pathVars>>

\* Stage 2's program exits at the end of its input (as wc does).
S2Exit ==
  /\ cpc[2] = "running"
  /\ eof2
  /\ cpc' = [cpc EXCEPT ![2] = "exited"]
  /\ cfds' = [cfds EXCEPT ![2] = AllClosed]
  /\ UNCHANGED <<plLine, full_path, plPaths, execd, ppc, pfds, pids, reaped, pipeBuf, toWrite, wrote1, read2, eof2,
                 plMsg, tokVars, redirVars, shVars, edVars, pathVars>>

NextPipe ==
  \/ PResolve(1)
  \/ PResolve(2)
  \/ PNotFound
  \/ PPipe
  \/ PFork(1)
  \/ PFork(2)
  \/ PClose(1)
  \/ PClose(2)
  \/ PWait(1)
  \/ PWait(2)
  \/ CSetup(1)
  \/ CSetup(2)
  \/ CExec(1)
  \/ CExec(2)
  \/ S1Write
  \/ S1Exit
  \/ S2Read
  \/ S2Exit
  \/ S2Quit
  \/ XFork
  \/ XWait

SpecPipe == InitPipe /\ [][NextPipe]_vars

\* Every step but stage 2 giving up early happens once it can: the parent
\* and the children are scheduled, fork, close and waitpid return, stage 1's
\* program writes what it has and exits, stage 2's program reads what is
\* there.
PipeProgress ==
  \/ PResolve(1) \/ PResolve(2) \/ PNotFound \/ PPipe
  \/ PFork(1) \/ PFork(2) \/ PClose(1) \/ PClose(2) \/ PWait(1) \/ PWait(2)
  \/ CSetup(1) \/ CSetup(2) \/ CExec(1) \/ CExec(2)
  \/ S1Write \/ S1Exit \/ S2Read \/ S2Exit
  \/ XFork \/ XWait

SpecPipeFair == SpecPipe /\ WF_vars(PipeProgress)

\* C8: what stage 2 has read on descriptor 0 is always the beginning of what
\* stage 1 has written on descriptor 1, in the same order, and once stage 2
\* has read end-of-stream it is all of it, under every interleaving of the
\* parent and the two children.
C8_PipeDeliversStage1Output ==
  /\ IsPrefix(read2, wrote1)
  /\ (eof2 => read2 = wrote1)

\* C8 witness: stage 1 wrote MaxData bytes, stage 2 read them all and then
\* end-of-stream, and run_pipeline returned.
C8_Witness ==
  /\ ppc = "done"
  /\ eof2
  /\ Len(wrote1) >= 2
  /\ read2 = wrote1

\* C10: once a stage's program runs, its descriptor 1 refers to the
\* standard-output target given on its segment and its descriptor 2 to the
\* standard-error target given on its segment.
C10_SegmentRedirectionsApplied ==
  LET s == PlSplit[plLine] IN
  \A c \in {1, 2} :
    (ppc # "idle" /\ cpc[c] = "running") =>
      LET out == IF c = 1 THEN s.out1 ELSE s.out2
          err == IF c = 1 THEN s.err1 ELSE s.err2
      IN /\ (out # NULL => cfds[c][STDOUT_FILENO] = plLine[out])
         /\ (err # NULL => cfds[c][STDERR_FILENO] = plLine[err])

\* C11: a builtin whose standard-output or standard-error target could not be
\* opened is not invoked.  (ran.kind = "builtin" records that
\* builtins[i].func was called in this iteration; ran.o1 and ran.o2 are the
\* outcomes of the two redirections.)
C11_FailedRedirectionSkipsBuiltin ==
  (ran.o1 = "open_fails" \/ ran.o2 = "open_fails") => ran.kind # "builtin"

\* The whitespace-delimited word that ends at the end of the buffer (empty
\* when the buffer is empty or ends in whitespace).
LastWord(buf) ==
  LET tails == {n \in 0..Len(buf) :
                  \A k \in (Len(buf) - n + 1)..Len(buf) : ~isspace(buf[k])}
      n == CHOOSE m \in tails : \A k \in tails : k <= m
  IN SubSeq(buf, Len(buf) - n + 1, Len(buf))

\* C12: on a tab press the completion prefix is the last word of the buffer,
\* the whitespace-delimited word ending at the buffer's end, whatever the
\* buffer holds before it.
C12_PrefixIsLastWord ==
  (edPc # "idle" /\ edTab.did # "none") => edTab.prefix = LastWord(edTab.before)

\* The candidates of the word being typed are several and their longest
\* common prefix is that word.
Ambiguous(buf) ==
  LET c == get_completions(LastWord(buf))
  IN Len(c) > 1 /\ find_lcp(c) = LastWord(buf)

\* C13: a tab pressed when the candidates are ambiguous only rings the bell,
\* unless the key before it was such a bell-only tab, and then it prints the
\* list; after any other key (printable, backspace, discarded control byte, a
\* tab that extended the buffer) the next tab is bell-only again.  The buffer
\* does not change.
C13_DoubleTabProtocol ==
  [][(edPc = "read" /\ stdin # <<>> /\ Head(stdin) = TAB /\ Ambiguous(buffer)) =>
       /\ edTab'.did = (IF edTab.did = "bell" THEN "list" ELSE "bell")
       /\ buffer' = buffer]_vars

\* What one tab press adds to the buffer, by the candidates of the word
\* being typed.
TabGain(buf) ==
  LET w == LastWord(buf)
      c == get_completions(w)
  IN IF Len(c) = 0 THEN <<>>
     ELSE IF Len(c) = 1 THEN SubSeq(c[1], Len(w) + 1, Len(c[1])) \o <<SP>>
     ELSE SubSeq(find_lcp(c), Len(w) + 1, Len(find_lcp(c)))

\* C14: after a tab press the buffer is the buffer before it, unchanged with
\* no candidate, followed by the missing suffix and one blank with exactly
\* one candidate, followed by the part of the longest common prefix beyond
\* the typed prefix (and no blank) with several.
C14_TabEffectOnBuffer ==
  (edPc # "idle" /\ edTab.did # "none") => buffer = edTab.before \o TabGain(edTab.before)

\* C15: a line without `|` whose command name is in the builtin registry
\* invokes the builtin and forks no child to run an executable of that name,
\* also when a PATH directory holds an executable of that name.
C15_BuiltinShadowsExecutable ==
  [][(/\ shPc = "have_line"
      /\ PipeIdx(shArgv) = -1
      /\ Single(shArgv).cmd # NULL
      /\ shArgv[Single(shArgv).cmd] \in Builtins)
       => /\ ran'.kind = "builtin"
          /\ ran'.name = shArgv[Single(shArgv).cmd]
          /\ spawned' = <<>>]_vars

\* C15 witness: the builtin echo was invoked for a line, no child was forked,
\* and /bin holds an executable named echo.
C15_Witness ==
  /\ shPc = "loop"
  /\ ran.kind = "builtin"
  /\ ran.name = "echo"
  /\ ext_check("echo") # NONE
  /\ spawned = <<>>

(***************************************************************************)
(* SpecPath: ext_check on a PATH list and a file system drawn from small   *)
(* sets.  A directory may hold the name as an executable, as a file        *)
(* without execute permission, or not at all.                              *)
(***************************************************************************)
MaxDirs == 3
DirNames == {"/a", "/b"}
ProgNames == {"t", "u"}
FileModes == {"none", "noexec", "exec"}

\* access(full_path, F_OK) == 0 && access(full_path, X_OK) == 0
AccessOk(files) ==
  {<<d, n>> \in DirNames \X ProgNames : files[d][n] = "exec"}

InitPath ==
  /\ pathPc = "input"
  /\ pDirs \in SeqsUpTo(DirNames, MaxDirs)
  /\ pFiles \in [DirNames -> [ProgNames -> FileModes]]
  /\ pName \in ProgNames
  /\ pRes = <<>>
  /\ IdleTok /\ IdleRedir /\ IdleSh /\ IdleEd /\ IdlePl

ExtCheck ==
  /\ pathPc = "input"
  /\ pRes' = ExtCheckIn(pDirs, AccessOk(pFiles), pName, 1)
  /\ pathPc' = "checked"
  /\ UNCHANGED <<pDirs, pFiles, pName, tokVars, redirVars, shVars, edVars, plVars>>

NextPath == ExtCheck

SpecPath == InitPath /\ [][NextPath]_vars

\* The positions of the PATH list whose directory holds an executable file
\* of the name.
Hits == {i \in 1..Len(pDirs) : pFiles[pDirs[i]][pName] = "exec"}

\* C16: ext_check returns the candidate under the earliest directory of the
\* PATH list that holds an executable file of the name, and none when no
\* directory holds one.
C16_FirstMatchWins ==
  pathPc = "checked" =>
    IF Hits = {} THEN pRes = NONE
    ELSE \E i \in Hits : /\ \A j \in Hits : i <= j
                         /\ pRes = <<pDirs[i], pName>>

\* C16 witness: the two directories of the PATH list are different, both
\* hold the executable, and the candidate under the first was returned.
C16_Witness ==
  /\ pathPc = "checked"
  /\ Len(pDirs) = 2
  /\ pDirs[1] # pDirs[2]
  /\ Hits = {1, 2}
  /\ pRes = <<pDirs[1], pName>>

\* C17: a line without `|` whose command name is neither in the builtin
\* registry nor in any PATH directory reports `<name>: command not found`
\* and nothing else, forks no child, and main goes back to the top of its
\* loop for the next prompt.
C17_CommandNotFound ==
  [][(/\ shPc = "have_line"
      /\ PipeIdx(shArgv) = -1
      /\ Single(shArgv).cmd # NULL
      /\ shArgv[Single(shArgv).cmd] \notin Builtins
      /\ ext_check(shArgv[Single(shArgv).cmd]) = NONE)
       => /\ ran' = [NothingRan EXCEPT !.kind = "not_found",
                                       !.name = shArgv[Single(shArgv).cmd]]
          /\ spawned' = <<>>
          /\ shPc' = "loop"]_vars

\* C17 witness: the line `f`, with arguments and a redirection or without,
\* was answered with `f: command not found`, and main is at the top of its
\* loop.
C17_Witness ==
  /\ shPc = "loop"
  /\ ran.kind = "not_found"
  /\ ran.name = "f"
  /\ spawned = <<>>

\* What the characters between a pair of double quotes emit: a backslash
\* before `"` or `\` emits that character alone, a backslash before another
\* character emits both, every other character emits itself.  closed is
\* FALSE when the characters hold a `"` that ends the quotation or end on a
\* backslash.
RECURSIVE DqEmits(_, _, _)
DqEmits(body, i, out) ==
  IF i > Len(body) THEN [closed |-> TRUE, out |-> out]
  ELSE IF body[i] = DQ THEN [closed |-> FALSE, out |-> out]
  ELSE IF body[i] = BS THEN
    IF i = Len(body) THEN [closed |-> FALSE, out |-> out]
    ELSE IF body[i + 1] \in {DQ, BS} THEN DqEmits(body, i + 2, Append(out, body[i + 1]))
    ELSE DqEmits(body, i + 2, out \o <<BS, body[i + 1]>>)
  ELSE DqEmits(body, i + 1, Append(out, body[i]))

Inside(s) == SubSeq(s, 2, Len(s) - 1)

\* C18: a line that is one double-quoted string yields as its only token what
\* its characters emit under the double-quote escape rule; a line that is
\* one single-quoted string yields as its only token the characters between
\* the quotes as they stand, backslashes and double quotes included.
C18_EscapesInsideQuotes ==
  (tokPc = "parsed" /\ Len(line) >= 3) =>
    /\ (/\ line[1] = DQ /\ line[Len(line)] = DQ
        /\ DqEmits(Inside(line), 1, <<>>).closed)
         => tokArgv = << DqEmits(Inside(line), 1, <<>>).out >>
    /\ (/\ line[1] = SQ /\ line[Len(line)] = SQ
        /\ \A k \in 2..(Len(line) - 1) : line[k] # SQ)
         => tokArgv = << Inside(line) >>

\* C18 witness: the double-quoted line of a backslash, a double quote and an
\* a was tokenized into the one token of a double quote and an a.
C18_Witness ==
  /\ tokPc = "parsed"
  /\ line = <<DQ, BS, DQ, "a", DQ>>
  /\ tokArgv = << <<DQ, "a">> >>

\* C19: no token parse_command returns is the empty string, whatever the
\* line: empty quoted strings, runs of blanks and blank-only lines included.
C19_NoEmptyToken ==
  tokPc = "parsed" => \A k \in 1..Len(tokArgv) : tokArgv[k] # <<>>

\* C19 witness: a line of a word, two blanks and an empty single-quoted
\* string was tokenized into the word alone.
C19_Witness ==
  /\ tokPc = "parsed"
  /\ line = <<"a", SP, SP, SQ, SQ>>
  /\ tokArgv = << <<"a">> >>

\* C20: once raw mode was enabled, the terminal is back in its original
\* settings whenever the shell process has ended: through the exit builtin
\* (with a redirection or without), through end-of-input, or in any other
\* way.
C20_TerminalRestoredOnExit ==
  (isatty /\ shPc \in {"exited", "crashed"}) => termios = "original"

\* The pipe exists or a child was forked.
PipeOrChild ==
  \/ EndOpen("pipe_r") \/ EndOpen("pipe_w")
  \/ \E c \in {1, 2} : pids[c] # "unset" \/ cpc[c] # "none"

\* C21: run_pipeline resolves both names before it creates the pipe or a
\* child; from then on the path held for each stage is the path of that
\* stage's own name (resolving stage 2 left stage 1's path alone), and it is
\* the path the stage's child hands to execv.  If a name is not found, the
\* report names that side and there is never a pipe or a child.
C21_ResolvedBeforeSpawn ==
  (ppc # "idle" /\ PipeIdx(plLine) # -1) =>
    /\ PipeOrChild =>
         \A c \in {1, 2} : /\ ext_check(CmdName(c)) # NONE
                           /\ PathText(plPaths[c]) = ext_check(CmdName(c))
    /\ \A c \in {1, 2} : execd[c] # NONE => execd[c] = ext_check(CmdName(c))
    /\ (\E c \in {1, 2} : ext_check(CmdName(c)) = NONE) =>
         /\ ~PipeOrChild
         /\ ppc = "done" =>
              plMsg = (IF ext_check(CmdName(1)) = NONE THEN "command not found: 1"
                       ELSE "command not found: 2")

\* C21 witness: both stages of `ls | wc` run, each the program found for its
\* own name, the two being different paths.
C21_Witness ==
  /\ ppc # "idle"
  /\ PipeIdx(plLine) # -1
  /\ cpc = <<"running", "running">>
  /\ execd[1] = ext_check("ls")
  /\ execd[2] = ext_check("wc")
  /\ execd[1] # execd[2]

\* C22: the parent holds no pipe end once it waits; stage 1 past its setup
\* does not hold the read end and stage 2 past its setup does not hold the
\* write end; once stage 1 has terminated, eventually no process holds the
\* write end; a running stage 2 eventually reads end-of-stream (or has
\* ended); run_pipeline has returned only when every child it forked has
\* terminated, and it always returns.
C22_PipeEndsClosedNoDeadlock ==
  /\ [](ppc \in {"wait1", "wait2", "done"} =>
          ~Holds(pfds, "pipe_r") /\ ~Holds(pfds, "pipe_w"))
  /\ [](ppc # "idle" =>
          /\ cpc[1] \notin {"none", "setup"} => ~Holds(cfds[1], "pipe_r")
          /\ cpc[2] \notin {"none", "setup"} => ~Holds(cfds[2], "pipe_w"))
  /\ [](ppc = "done" => \A c \in {1, 2} : pids[c] = "child" => Terminated(c))
  /\ ((ppc # "idle" /\ Terminated(1)) ~> ~EndOpen("pipe_w"))
  /\ ((ppc # "idle" /\ cpc[2] = "running") ~> (eof2 \/ cpc[2] = "exited"))
  /\ (ppc = "fork1" ~> ppc = "done")

\* C22 witness: both children were forked, stage 1 wrote and exited, stage 2
\* read to end-of-stream and exited, both waits returned.
C22_Witness ==
  /\ ppc = "done"
  /\ reaped = {1, 2}
  /\ cpc = <<"exited", "exited">>
  /\ eof2
  /\ wrote1 # <<>>

(***************************************************************************)
(* C23: the shell is blocked while a foreground command runs.  Between a   *)
(* successful fork and the termination of every child of the line (one for *)
(* a single command, both for a pipeline) the parent is inside             *)
(* execute_external_program or run_pipeline, at a statement that forks,    *)
(* closes a pipe end or waits: it has not returned to the loop that prints *)
(* the prompt and reads the next byte.                                     *)
(***************************************************************************)
Alive(c) == pids[c] = "child" /\ cpc[c] \in {"setup", "redir", "running"}

InsideForeground == {"fork2", "close_r", "close_w", "wait1", "wait2", "xwait"}

C23_ShellBlockedWhileForeground ==
  \A c \in {1, 2} : Alive(c) => ppc \in InsideForeground

\* Both children of a pipeline are alive, stage 1's program runs, and the
\* parent is at its first wait.
C23_Witness ==
  /\ ppc = "wait1"
  /\ Alive(1) /\ Alive(2)
  /\ cpc[1] = "running"

(***************************************************************************)
(* C24: whenever fork fails, for a single external command or for either   *)
(* stage of a pipeline, the failure is reported, no further child of the   *)
(* line is created, the parent waits only for a process it created, and    *)
(* the function returns to the prompt loop.                                *)
(***************************************************************************)
C24_ForkFailureHandled ==
  /\ (\E c \in {1, 2} : pids[c] = "failed") => plMsg = "fork"
  /\ pids[1] = "failed" => pids[2] # "child"
  /\ ppc = "wait1" => pids[1] = "child"
  /\ ppc = "wait2" => pids[2] = "child"

(***************************************************************************)
(* C25: on a terminal, the terminal is in raw mode at every point where    *)
(* the editor reads a byte, for the whole session: also after a line whose *)
(* child could not open its redirection target, or could not exec, and     *)
(* ended itself.                                                           *)
(***************************************************************************)
C25_RawModeWhileReading ==
  (isatty /\ shPc = "reading") => termios = enable_raw_mode

(***************************************************************************)
(* C27: every token string parse_command allocated is released at most     *)
(* once in the iteration that handles the line, whatever the line's shape: *)
(* a single command or a pipeline, with redirections or without.           *)
(***************************************************************************)
Releases(strs) ==
  IF PipeIdx(strs) = -1 THEN Single(strs).frees ELSE Split(strs).frees

C27_TokensReleasedOnce ==
  shPc = "have_line" => ~DoubleFree(Releases(shArgv))

(***************************************************************************)
(* C26: on a byte that is not a tab, read_input_line does what the         *)
(* reference editor does: a printable byte is appended, a backspace (127   *)
(* or 8) removes the last byte of a non-empty buffer and does nothing to   *)
(* an empty one, another control byte changes nothing, newline or carriage *)
(* return returns the buffer as the line, byte 4 signals "no more input"   *)
(* on an empty buffer and returns the buffer as the line otherwise.  Both  *)
(* editors start a line with the empty buffer, so agreeing on every byte   *)
(* is agreeing on every sequence of bytes without a tab.                   *)
(***************************************************************************)
\* The reference editor's step on the buffer buf and the byte c, for a
\* buffer that holds at most cap bytes: the buffer afterwards and what the
\* call returns (-1: it goes on reading).
Reference(buf, c, cap) ==
  IF c \in {DEL, BSP} THEN
    [buffer |-> IF buf # <<>> THEN SubSeq(buf, 1, Len(buf) - 1) ELSE buf, ret |-> -1]
  ELSE IF c \in {NL, CR} THEN [buffer |-> buf, ret |-> 1]
  ELSE IF c = EOT THEN [buffer |-> buf, ret |-> IF buf = <<>> THEN 0 ELSE 1]
  ELSE IF c = ESC THEN [buffer |-> buf, ret |-> -1]
  ELSE [buffer |-> IF Len(buf) < cap THEN Append(buf, c) ELSE buf, ret |-> -1]

\* The editor takes its step as the reference editor with that capacity does.
StepsAs(cap) ==
  (edPc = "read" /\ stdin # <<>> /\ Head(stdin) # TAB) =>
    /\ buffer' = Reference(buffer, Head(stdin), cap).buffer
    /\ edRet' = Reference(buffer, Head(stdin), cap).ret
    /\ (edPc' = "read") = (edRet' = -1)

\* C26 as stated: the reference editor appends every printable byte.
C26_AsReferenceEditor ==
  [][StepsAs(COMMAND_SIZE + 1)]_vars

\* C26 with the capacity: the reference editor appends a printable byte
\* while the buffer holds fewer than COMMAND_SIZE - 1 bytes, and drops it
\* otherwise.
C26_AsBoundedReferenceEditor ==
  [][StepsAs(COMMAND_SIZE - 1)]_vars

\* The array is full and the printable byte that arrived was dropped: what
\* is left to read is the input after that byte.
C26_Witness ==
  /\ edPc = "read"
  /\ buffer = Fill(COMMAND_SIZE - 1)
  /\ stdin = <<DEL, "a", NL>>

(***************************************************************************)
(* C28: after any sequence of bytes the length of the line stays strictly  *)
(* below the capacity of the array and the array holds a NUL at that       *)
(* length; a tab expansion that would not fit is dropped whole and leaves  *)
(* the buffer as it was; a printable byte that arrives at a full buffer is *)
(* dropped.                                                                *)
(***************************************************************************)
Terminated0 == edAbove = <<>> \/ Head(edAbove) = NUL

C28_BufferWithinCapacity ==
  /\ [](edPc # "idle" => Len(buffer) < COMMAND_SIZE /\ Terminated0)
  /\ [](edPc # "idle" /\ edTab.did = "dropped" => buffer = edTab.before)
  /\ [][(edPc = "read" /\ stdin # <<>> /\ Len(buffer) = COMMAND_SIZE - 1
           /\ Head(stdin) \notin {DEL, BSP})
         => buffer' = buffer]_vars

\* The extension of `l` to `ls` was dropped at a full buffer.
C28_Witness ==
  /\ edPc = "read"
  /\ edTab.did = "dropped"
  /\ Len(buffer) = COMMAND_SIZE - 1
  /\ buffer[1] = "l"


=============================================================================
